---- MODULE Spec2Model ----
(***************************************************************************)
(* A model of the flag registry and argument parser of node-flags          *)
(* (src/unnamed/part_000, lines 1-481: the TypeScript module flags.ts).    *)
(*                                                                         *)
(* Strings are sequences of one-character strings, so that startsWith,     *)
(* slice, split and join are computed as the code computes them.           *)
(* JavaScript values are tagged records of one uniform shape.              *)
(***************************************************************************)
EXTENDS Integers, Sequences, FiniteSets, TLC

VARIABLES
    FLAGS,          \* the registry: flag name -> descriptor, the contents of
                    \* the object the constant FLAGS is bound to (part_000:29)
    parseCalled,    \* the parse-completed latch (part_000:225)
    exitOnError,    \* the global error toggle (part_000:39)
    exited,         \* "no", or the status process.exit was called with
    pc,             \* "idle", or "scan" while parse walks its arguments
    args,           \* parse's argument array, spliced in place (part_000:170,192)
    i,              \* parse's loop index, 0-based as in the code (part_000:175)
    ign,            \* parse's ignoreUnrecognized parameter (part_000:171)
    argv,           \* the argument vector as the caller passed it
    nparse,         \* parse calls that scanned since construction or reset
    parseReturned,  \* a parse call returned normally since construction or reset
    last,           \* the last API call: what was called and how it ended
    GLOBAL_FLAGS,   \* the object global.GLOBAL_FLAGS refers to (part_000:25-27)
    everDeclared    \* the names registered since the module was loaded

vars == <<FLAGS, parseCalled, exitOnError, exited, pc, args, i, ign, argv,
          nparse, parseReturned, last, GLOBAL_FLAGS, everDeclared>>

----------------------------------------------------------------------------
(* Strings *)

DASHES == <<"-", "-">>

\* String.prototype.startsWith
StartsWith(s, p) == Len(s) >= Len(p) /\ SubSeq(s, 1, Len(p)) = p

\* String.prototype.slice(k) / Array.prototype.slice(k), k >= 0
Slice(s, k) == SubSeq(s, k + 1, Len(s))

\* String.prototype.indexOf(c) for a one-character c: 0-based, -1 if absent
IndexOf(s, c) ==
    IF \E k \in 1..Len(s) : s[k] = c
    THEN (CHOOSE k \in 1..Len(s) : s[k] = c /\ \A j \in 1..(k - 1) : s[j] # c) - 1
    ELSE -1

\* String.prototype.split(c) for a one-character separator c
RECURSIVE Split(_, _)
Split(s, c) ==
    IF IndexOf(s, c) = -1
    THEN <<s>>
    ELSE <<SubSeq(s, 1, IndexOf(s, c))>> \o Split(Slice(s, IndexOf(s, c) + 1), c)

\* Array.prototype.join(sep)
RECURSIVE Join(_, _)
Join(parts, sep) ==
    IF Len(parts) = 0 THEN <<>>
    ELSE IF Len(parts) = 1 THEN parts[1]
    ELSE parts[1] \o sep \o Join(Tail(parts), sep)

\* Array.prototype.splice(k, 1), k 0-based
Splice1(a, k) == SubSeq(a, 1, k) \o SubSeq(a, k + 2, Len(a))

\* String.prototype.toLowerCase on the letters the model's tokens use
LowerChar(c) ==
    CASE c = "T" -> "t"
      [] c = "R" -> "r"
      [] c = "U" -> "u"
      [] c = "E" -> "e"
      [] c = "F" -> "f"
      [] c = "A" -> "a"
      [] c = "L" -> "l"
      [] c = "S" -> "s"
      [] OTHER -> c

ToLowerCase(s) == [k \in 1..Len(s) |-> LowerChar(s[k])]

\* [...s]: the characters of a string, each as a string of its own
Spread(s) == [k \in 1..Len(s) |-> <<s[k]>>]

\* new Array(n + 1).join(c): the character c, n times
Repeat(c, n) == [k \in 1..n |-> c]

----------------------------------------------------------------------------
(* Values *)

Blank == [t |-> "undefined", s |-> <<>>, b |-> FALSE, m |-> 0, e |-> 0, l |-> <<>>]

UndefV == Blank
NullV == [Blank EXCEPT !.t = "null"]
NaNV == [Blank EXCEPT !.t = "nan"]
StrV(s) == [Blank EXCEPT !.t = "string", !.s = s]
BoolV(b) == [Blank EXCEPT !.t = "boolean", !.b = b]
\* the number m / 10^e, normalised: e = 0 or m is no multiple of 10
NumV(m, e) == [Blank EXCEPT !.t = "number", !.m = m, !.e = e]
ListV(l) == [Blank EXCEPT !.t = "array", !.l = l]

\* a ?? b
Coalesce(a, b) == IF a.t \in {"undefined", "null"} THEN b ELSE a

\* !!v
Truthy(v) ==
    CASE v.t = "undefined" -> FALSE
      [] v.t = "null" -> FALSE
      [] v.t = "nan" -> FALSE
      [] v.t = "string" -> Len(v.s) > 0
      [] v.t = "boolean" -> v.b
      [] v.t = "number" -> v.m # 0
      [] OTHER -> TRUE

Digits == {"0", "1", "2", "3", "4", "5", "6", "7", "8", "9"}

DigitVal(c) ==
    CASE c = "0" -> 0 [] c = "1" -> 1 [] c = "2" -> 2 [] c = "3" -> 3
      [] c = "4" -> 4 [] c = "5" -> 5 [] c = "6" -> 6 [] c = "7" -> 7
      [] c = "8" -> 8 [] OTHER -> 9

\* the integer a string of digits denotes (0 for the empty string)
RECURSIVE DigitsVal(_)
DigitsVal(s) ==
    IF Len(s) = 0 THEN 0
    ELSE 10 * DigitsVal(SubSeq(s, 1, Len(s) - 1)) + DigitVal(s[Len(s)])

RECURSIVE Normalise(_, _)
Normalise(m, e) ==
    IF e > 0 /\ m % 10 = 0 THEN Normalise(m \div 10, e - 1) ELSE NumV(m, e)

\* Number(inp) on strings of digits and dots (no sign, blank, exponent or
\* radix prefix occurs in the model's tokens); Number(null) is 0
ToNumber(inp) ==
    IF inp.t = "null" THEN NumV(0, 0)
    ELSE LET s == inp.s
             dot == IndexOf(s, ".")
             whole == IF dot = -1 THEN s ELSE SubSeq(s, 1, dot)
             frac == IF dot = -1 THEN <<>> ELSE Slice(s, dot + 1)
         IN IF Len(s) = 0 THEN NumV(0, 0)
            ELSE IF /\ \A k \in 1..Len(whole) : whole[k] \in Digits
                    /\ \A k \in 1..Len(frac) : frac[k] \in Digits
                    /\ Len(whole) + Len(frac) > 0
                 THEN Normalise(DigitsVal(whole \o frac), Len(frac))
                 ELSE NaNV

\* the longest prefix of digits
RECURSIVE DigitPrefix(_)
DigitPrefix(s) ==
    IF Len(s) > 0 /\ s[1] \in Digits THEN <<s[1]>> \o DigitPrefix(Tail(s)) ELSE <<>>

\* parseInt(inp, 10) on the same strings; parseInt(null, 10) reads "null"
ParseInt(inp) ==
    IF inp.t = "null" THEN NaNV
    ELSE IF Len(DigitPrefix(inp.s)) = 0 THEN NaNV
    ELSE NumV(DigitsVal(DigitPrefix(inp.s)), 0)

----------------------------------------------------------------------------
(* Flag descriptors: class Flag and its six subclasses *)

Kinds == {"String", "Boolean", "Integer", "Number", "StringList", "MultiString"}

\* what a validator function does when it is called: "returnsFalse" returns
\* false and never throws, "throws" throws Error("Bad Input")
Validators == {"none", "returnsFalse", "throws"}

\* a validator whose false return rejects the value as well
ValidatorRejects(validator, input) == validator # "none"

ValidatorThrows(validator, input) == validator = "throws"

\* the constructors' `defaultValue ?? ...` (part_000:367,402,419,436,453,464)
KindDefault(kind) ==
    CASE kind = "String" -> StrV(<<>>)
      [] kind = "Boolean" -> BoolV(FALSE)
      [] kind = "Integer" -> NumV(0, 0)
      [] kind = "Number" -> NumV(0, 0)
      [] OTHER -> ListV(<<>>)

\* new <Kind>Flag(name, defaultValue, description)
NewFlag(kind, defaultValue) ==
    [kind |-> kind,
     defaultValue |-> Coalesce(defaultValue, KindDefault(kind)),
     currentValue |-> NullV,
     validator |-> "none",
     isSecret |-> FALSE,
     isRequired |-> FALSE,
     isSet |-> FALSE]

Ok(v) == [err |-> "none", v |-> v]
Err(e) == [err |-> e, v |-> NullV]

\* BooleanFlag.parseInput without its toLowerCase()
BooleanParseInputCaseSensitive(inp) ==
    IF inp.t = "null" THEN Ok(BoolV(TRUE))
    ELSE IF inp.s \in {<<"1">>, <<"t", "r", "u", "e">>, <<"t">>} THEN Ok(BoolV(TRUE))
    ELSE IF inp.s \in {<<"0">>, <<"f", "a", "l", "s", "e">>, <<"f">>} THEN Ok(BoolV(FALSE))
    ELSE Err("InvalidBoolean")

BooleanParseInput(inp) ==
    IF inp.t = "null" THEN Ok(BoolV(TRUE))
    ELSE LET low == ToLowerCase(inp.s)
         IN IF low \in {<<"1">>, <<"t", "r", "u", "e">>, <<"t">>} THEN Ok(BoolV(TRUE))
            ELSE IF low \in {<<"0">>, <<"f", "a", "l", "s", "e">>, <<"f">>}
                 THEN Ok(BoolV(FALSE))
                 ELSE Err("InvalidBoolean")

\* IntegerFlag.parseInput without its parseInt comparison
IntegerParseInputNoRoundTrip(inp) ==
    IF ToNumber(inp).t = "nan" THEN Err("InvalidInteger") ELSE Ok(ToNumber(inp))

IntegerParseInput(inp) ==
    IF ToNumber(inp).t = "nan" \/ ParseInt(inp) # ToNumber(inp)
    THEN Err("InvalidInteger")
    ELSE Ok(ToNumber(inp))

\* NumberFlag.parseInput that rejects null and the empty string
NumberParseInputRejectsEmpty(inp) ==
    IF inp.t = "null" \/ inp = StrV(<<>>) \/ ToNumber(inp).t = "nan"
    THEN Err("InvalidNumber")
    ELSE Ok(ToNumber(inp))

NumberParseInput(inp) ==
    IF ToNumber(inp).t = "nan" THEN Err("InvalidNumber") ELSE Ok(ToNumber(inp))

\* StringFlag.parseInput that reads null as the empty string
StringParseInputNullAsEmpty(inp) ==
    IF inp.t = "null" THEN Ok(StrV(<<>>)) ELSE Ok(inp)

StringParseInput(inp) ==
    IF inp.t = "null" THEN Err("InvalidString") ELSE Ok(inp)

\* StringListFlag.parseInput that drops the empty segments
StringListParseInputNoEmpty(inp) ==
    IF inp.t = "null" THEN Ok(ListV(<<>>))
    ELSE Ok(ListV(SelectSeq(Split(inp.s, ","), LAMBDA seg : Len(seg) > 0)))

StringListParseInput(inp) ==
    IF inp.t = "null" THEN Ok(ListV(<<>>)) ELSE Ok(ListV(Split(inp.s, ",")))

\* this.parseInput(input), dispatched on the flag's class
ParseInput(kind, inp) ==
    CASE kind = "String" -> StringParseInput(inp)
      [] kind = "Boolean" -> BooleanParseInput(inp)
      [] kind = "Integer" -> IntegerParseInput(inp)
      [] kind = "Number" -> NumberParseInput(inp)
      [] kind = "StringList" -> StringListParseInput(inp)
      [] OTHER -> Err("NotImplemented")

\* Flag.set(input), input a string or null: the descriptor afterwards and
\* the error thrown ("none" if it returned)
\* Flag.set without its isSet guard
FlagSetOverwrites(f, input) ==
    LET r == ParseInput(f.kind, input)
    IN IF r.err # "none" THEN [f |-> f, err |-> r.err]
       ELSE LET g == [f EXCEPT !.currentValue = r.v]
            IN IF f.validator # "none" /\ ValidatorThrows(f.validator, r.v)
               THEN [f |-> g, err |-> "BadInput"]
               ELSE [f |-> [g EXCEPT !.isSet = TRUE], err |-> "none"]

FlagSet(f, input) ==
    IF f.isSet THEN [f |-> f, err |-> "AlreadySet"]
    ELSE LET r == ParseInput(f.kind, input)
         IN IF r.err # "none" THEN [f |-> f, err |-> r.err]
            ELSE LET g == [f EXCEPT !.currentValue = r.v]
                 IN IF f.validator # "none" /\ ValidatorThrows(f.validator, r.v)
                    THEN [f |-> g, err |-> "BadInput"]
                    ELSE [f |-> [g EXCEPT !.isSet = TRUE], err |-> "none"]

\* MultiStringFlag.set with the isSet guard of Flag.set
MultiStringSetOnce(f, input) ==
    IF f.isSet THEN [f |-> f, err |-> "AlreadySet"]
    ELSE IF f.validator # "none" /\ ValidatorThrows(f.validator, input)
    THEN [f |-> f, err |-> "BadInput"]
    ELSE IF input.t = "null"
    THEN [f |-> [f EXCEPT !.currentValue = ListV(<<>>)], err |-> "NotIterable"]
    ELSE [f |-> [f EXCEPT !.currentValue = ListV(Spread(input.s)), !.isSet = TRUE],
          err |-> "none"]

\* MultiStringFlag.set(input): push(...input) spreads a string into its
\* characters and throws a TypeError on null
MultiStringSet(f, input) ==
    IF f.validator # "none" /\ ValidatorThrows(f.validator, input)
    THEN [f |-> f, err |-> "BadInput"]
    ELSE LET cur == IF Truthy(f.currentValue) THEN f.currentValue ELSE ListV(<<>>)
             g == [f EXCEPT !.currentValue = cur]
         IN IF input.t = "null"
            THEN [f |-> g, err |-> "NotIterable"]
            ELSE [f |-> [g EXCEPT !.currentValue = ListV(cur.l \o Spread(input.s)),
                                  !.isSet = TRUE],
                  err |-> "none"]

\* FLAGS[flag].set(value)
DescriptorSet(f, input) ==
    IF f.kind = "MultiString" THEN MultiStringSet(f, input) ELSE FlagSet(f, input)

\* Flag.get() without the isSet test
FlagGetCurrent(f) == f.currentValue

\* Flag.get()
FlagGet(f) == IF f.isSet THEN f.currentValue ELSE f.defaultValue

\* BooleanFlag.get()
BooleanGet(f) == BoolV(Truthy(FlagGet(f)))

\* FLAGS[name].get()
DescriptorGet(f) == IF f.kind = "Boolean" THEN BooleanGet(f) ELSE FlagGet(f)

----------------------------------------------------------------------------
(* The registry and its API *)

HELP == <<"h", "e", "l", "p">>

\* the object the constant FLAGS is bound to at module load
REGISTRY == "registry"

\* that object is a plain `{}` (part_000:26): a lookup FLAGS[name] of a name
\* that is no key of it goes on to Object.prototype, whose properties
\* (valueOf, toString, constructor, ...) are functions and no descriptors
VALUEOF == <<"v", "a", "l", "u", "e", "O", "f">>
Inherited == {VALUEOF}

\* FLAGS[name] is truthy: a descriptor, or an inherited property
Has(flags, name) == name \in DOMAIN flags \/ name \in Inherited

NoName == <<>>

\* an API call: its name argument and its value argument, and how it ended
\* (it returned val, it threw err, or it ended the process); the two lines of
\* positional context of a parse error, and the flags help() listed
Call(op, name) ==
    [op |-> op, name |-> name, arg |-> UndefV, status |-> "running",
     err |-> "none", val |-> UndefV, line |-> <<>>, carets |-> <<>>,
     listed |-> {}]
Returned(op, name, val) == [Call(op, name) EXCEPT !.status = "returned", !.val = val]
Threw(op, name, err) == [Call(op, name) EXCEPT !.status = "threw", !.err = err]
Exited(op, name, err) == [Call(op, name) EXCEPT !.status = "exited", !.err = err]

\* registerInternalFlags(): defineBoolean("help").setDescription(..).setSecret(true)
InternalFlags == (HELP :> [NewFlag("Boolean", UndefV) EXCEPT !.isSecret = TRUE])

Idle == pc = "idle" /\ exited = "no"

NoLocals == args' = <<>> /\ i' = 0 /\ ign' = FALSE /\ argv' = <<>>

\* addFlag without its duplicate check
AddFlagErrorLatchOnly(name) ==
    IF parseCalled THEN "RegisterAfterParse" ELSE "none"

\* addFlag(name, flag): the error it throws, "none" if it registers the flag
AddFlagError(name) ==
    IF parseCalled THEN "RegisterAfterParse"
    ELSE IF Has(FLAGS, name) THEN "Duplicate"
    ELSE "none"

\* define<Kind>(name, defaultValue)
Define(name, kind, defaultValue) ==
    /\ Idle
    /\ IF AddFlagError(name) = "none"
       THEN /\ FLAGS' = (name :> NewFlag(kind, defaultValue)) @@ FLAGS
            /\ everDeclared' = everDeclared \cup {name}
            /\ last' = [Returned("define", name, UndefV) EXCEPT !.arg = defaultValue]
       ELSE /\ FLAGS' = FLAGS
            /\ everDeclared' = everDeclared
            /\ last' = Threw("define", name, AddFlagError(name))
    /\ UNCHANGED <<GLOBAL_FLAGS, parseCalled, exitOnError, exited, pc, args, i, ign, argv,
                   nparse, parseReturned>>

\* the fluent setters of a descriptor that is in the registry
Configure(op, name, f) ==
    /\ Idle
    /\ name \in DOMAIN FLAGS
    /\ FLAGS' = [FLAGS EXCEPT ![name] = f]
    /\ last' = Returned(op, name, UndefV)
    /\ UNCHANGED <<GLOBAL_FLAGS, everDeclared, parseCalled, exitOnError, exited, pc, args, i, ign, argv,
                   nparse, parseReturned>>

SetDefault(name, defaultValue) ==
    /\ Idle
    /\ name \in DOMAIN FLAGS
    /\ FLAGS' = [FLAGS EXCEPT ![name].defaultValue = defaultValue]
    /\ last' = [Returned("setDefault", name, UndefV) EXCEPT !.arg = defaultValue]
    /\ UNCHANGED <<GLOBAL_FLAGS, everDeclared, parseCalled, exitOnError, exited, pc, args, i, ign, argv,
                   nparse, parseReturned>>

SetValidator(name, validator) ==
    /\ name \in DOMAIN FLAGS
    /\ Configure("setValidator", name, [FLAGS[name] EXCEPT !.validator = validator])

SetSecret(name, isSecret) ==
    /\ name \in DOMAIN FLAGS
    /\ Configure("setSecret", name, [FLAGS[name] EXCEPT !.isSecret = isSecret])

SetRequired(name, isRequired) ==
    /\ name \in DOMAIN FLAGS
    /\ Configure("setRequired", name, [FLAGS[name] EXCEPT !.isRequired = isRequired])

\* setExitOnError(value)
SetExitOnError(value) ==
    /\ Idle
    /\ exitOnError' = value
    /\ last' = Returned("setExitOnError", NoName, UndefV)
    /\ UNCHANGED <<GLOBAL_FLAGS, everDeclared, FLAGS, parseCalled, exited, pc, args, i, ign, argv,
                   nparse, parseReturned>>

\* reset() without `parseCalled = false`
ResetKeepsLatch ==
    /\ Idle
    /\ FLAGS' = InternalFlags
    /\ nparse' = 0
    /\ parseReturned' = FALSE
    /\ last' = Returned("reset", NoName, UndefV)
    /\ UNCHANGED <<GLOBAL_FLAGS, everDeclared, parseCalled, exitOnError, exited,
                   pc, args, i, ign, argv>>

\* reset() that binds global.GLOBAL_FLAGS to a new, empty mapping
ResetReplacesMapping ==
    /\ Idle
    /\ parseCalled' = FALSE
    /\ GLOBAL_FLAGS' = "replaced"
    /\ FLAGS' = InternalFlags
    /\ nparse' = 0
    /\ parseReturned' = FALSE
    /\ last' = Returned("reset", NoName, UndefV)
    /\ UNCHANGED <<everDeclared, exitOnError, exited, pc, args, i, ign, argv>>

\* reset(): every key of the mapping is deleted and `help` is registered
\* again, in the object FLAGS and global.GLOBAL_FLAGS both refer to
Reset ==
    /\ Idle
    /\ parseCalled' = FALSE
    /\ FLAGS' = InternalFlags
    /\ nparse' = 0
    /\ parseReturned' = FALSE
    /\ last' = Returned("reset", NoName, UndefV)
    /\ UNCHANGED <<GLOBAL_FLAGS, everDeclared, exitOnError, exited, pc, args, i,
                   ign, argv>>

\* get(name); for an inherited property FLAGS[name].get is undefined, and
\* calling it throws a TypeError
Get(name) ==
    /\ Idle
    /\ last' = IF name \in DOMAIN FLAGS
               THEN Returned("get", name, DescriptorGet(FLAGS[name]))
               ELSE IF Has(FLAGS, name)
               THEN Threw("get", name, "NotAFunction")
               ELSE Threw("get", name, "UnknownFlag")
    /\ UNCHANGED <<GLOBAL_FLAGS, everDeclared, FLAGS, parseCalled, exitOnError, exited, pc, args, i, ign,
                   argv, nparse, parseReturned>>

\* isSet(name); for an inherited property FLAGS[name].isSet is undefined
IsSet(name) ==
    /\ Idle
    /\ last' = IF name \in DOMAIN FLAGS
               THEN Returned("isSet", name, BoolV(FLAGS[name].isSet))
               ELSE IF Has(FLAGS, name)
               THEN Returned("isSet", name, UndefV)
               ELSE Threw("isSet", name, "UnknownFlag")
    /\ UNCHANGED <<GLOBAL_FLAGS, everDeclared, FLAGS, parseCalled, exitOnError, exited, pc, args, i, ign,
                   argv, nparse, parseReturned>>

----------------------------------------------------------------------------
(* parse(args, ignoreUnrecognized) *)

\* the split without the rejoin: parts[1] in place of parts.slice(1).join("=")
SplitFlagSecondPart(arg) ==
    LET flag == Slice(arg, 2)
        parts == Split(flag, "=")
    IN IF IndexOf(flag, "=") > -1
       THEN [flag |-> parts[1], value |-> StrV(parts[2])]
       ELSE [flag |-> flag, value |-> NullV]

\* the name and the value a token `--flag` or `--flag=value` carries
\* (part_000:181-187)
SplitFlag(arg) ==
    LET flag == Slice(arg, 2)
        parts == Split(flag, "=")
    IN IF IndexOf(flag, "=") > -1
       THEN [flag |-> parts[1], value |-> StrV(Join(Tail(parts), <<"=">>))]
       ELSE [flag |-> flag, value |-> NullV]

\* value == null && args[i + 1] && !args[i + 1].startsWith("--")
TakesNext(a, k, value) ==
    /\ value.t = "null"
    /\ k + 2 <= Len(a)
    /\ Len(a[k + 2]) > 0
    /\ ~StartsWith(a[k + 2], DASHES)

\* the `no` test with its null test inverted: value != null
NegatedWithValue(flags, flag, value) ==
    /\ ~Has(flags, flag)
    /\ value.t # "null"
    /\ StartsWith(flag, <<"n", "o">>)

\* the `no` test without its lookup: value == null && flag.startsWith("no")
NegatedThoughDeclared(flags, flag, value) ==
    /\ value.t = "null"
    /\ StartsWith(flag, <<"n", "o">>)

\* !FLAGS[flag] && value == null && flag.startsWith("no")
Negated(flags, flag, value) ==
    /\ ~Has(flags, flag)
    /\ value.t = "null"
    /\ StartsWith(flag, <<"n", "o">>)

\* one pass of the loop body over a `--` token at index k, up to the lookup:
\* the flag name, the value and the argument array after the splice
ScanToken(a, k, flags) ==
    LET sp == SplitFlag(a[k + 1])
        takes == TakesNext(a, k, sp.value)
        a2 == IF takes
              THEN Splice1([a EXCEPT ![k + 1] = a[k + 1] \o <<" ">> \o a[k + 2]], k + 1)
              ELSE a
        v2 == IF takes THEN StrV(a[k + 2]) ELSE sp.value
        neg == Negated(flags, sp.flag, v2)
    IN [flag |-> IF neg THEN Slice(sp.flag, 2) ELSE sp.flag,
        value |-> IF neg THEN StrV(<<"0">>) ELSE v2,
        args |-> a2]

\* "\n  " + args.join(" "): the context line of a parse error
ContextLine(a) == <<" ", " ">> \o Join(a, <<" ">>)

\* "\n " + new Array(args.slice(0, i).join(" ").length + 2).join(" ")
\*       + new Array(args[i].length + 1).join("^"): the caret line
CaretLine(a, k) ==
    <<" ">> \o Repeat(" ", Len(Join(SubSeq(a, 1, k), <<" ">>)) + 1)
            \o Repeat("^", Len(a[k + 1]))

\* the positional context throwFlagParseError(a, k, msg) builds
ErrorLines(a, k) == [line |-> ContextLine(a), carets |-> CaretLine(a, k)]

NoLines == [line |-> <<>>, carets |-> <<>>]

\* throwFlagParseError(args, i, msg): exit with status 1, or throw
Fail(name, err, lines) ==
    /\ pc' = "idle"
    /\ NoLocals
    /\ LET end == IF exitOnError THEN Exited("parse", name, err)
                  ELSE Threw("parse", name, err)
       IN last' = [end EXCEPT !.arg = BoolV(ign), !.line = lines.line,
                              !.carets = lines.carets]
    /\ exited' = IF exitOnError THEN "1" ELSE exited

\* a parse call can be made: it returns at once, or scans within the bound
CanParse(maxParses) == Idle /\ (parseCalled \/ nparse < maxParses)

\* the call and its first statement, `if (parseCalled) return []`
ParseCall(a, ignoreUnrecognized, maxParses) ==
    /\ Idle
    /\ IF parseCalled
       THEN /\ last' = Returned("parse", NoName, ListV(<<>>))
            /\ parseReturned' = TRUE
            /\ UNCHANGED <<pc, args, i, ign, argv, nparse>>
       ELSE /\ nparse < maxParses
            /\ pc' = "scan"
            /\ args' = a
            /\ argv' = a
            /\ i' = 0
            /\ ign' = ignoreUnrecognized
            /\ nparse' = nparse + 1
            /\ last' = [Call("parse", NoName) EXCEPT !.arg = BoolV(ignoreUnrecognized)]
            /\ UNCHANGED parseReturned
    /\ UNCHANGED <<GLOBAL_FLAGS, everDeclared, FLAGS, parseCalled, exitOnError, exited>>

Scanning == pc = "scan" /\ i < Len(args)

\* args.slice(i) in place of args.slice(i + 1)
TrailingFromSeparator(a, k) == Slice(a, k)

\* args.slice(i + 1)
Trailing(a, k) == Slice(a, k + 1)

\* the `--` branch that steps over the separator and scans on
ScanSeparatorSkips ==
    /\ Scanning
    /\ args[i + 1] = DASHES
    /\ i' = i + 1
    /\ UNCHANGED <<GLOBAL_FLAGS, everDeclared, FLAGS, parseCalled, exitOnError,
                   exited, nparse, pc, args, ign, argv, last, parseReturned>>

\* arg == "--": return args.slice(i + 1)
ScanSeparator ==
    /\ Scanning
    /\ args[i + 1] = DASHES
    /\ last' = Returned("parse", NoName, ListV(Trailing(args, i)))
    /\ parseReturned' = TRUE
    /\ pc' = "idle"
    /\ NoLocals
    /\ UNCHANGED <<GLOBAL_FLAGS, everDeclared, FLAGS, parseCalled, exitOnError, exited, nparse>>

\* the flag token branch without its ignoreUnrecognized test
ScanFlagNeverIgnores ==
    /\ Scanning
    /\ args[i + 1] # DASHES
    /\ StartsWith(args[i + 1], DASHES)
    /\ LET t == ScanToken(args, i, FLAGS)
       IN IF t.flag \in DOMAIN FLAGS
          THEN LET r == DescriptorSet(FLAGS[t.flag], t.value)
               IN /\ FLAGS' = [FLAGS EXCEPT ![t.flag] = r.f]
                  /\ IF r.err = "none"
                     THEN /\ args' = t.args
                          /\ i' = i + 1
                          /\ UNCHANGED <<pc, ign, argv, exited, last>>
                     ELSE Fail(t.flag, r.err, ErrorLines(t.args, i))
          ELSE IF Has(FLAGS, t.flag)
          THEN /\ FLAGS' = FLAGS
               /\ Fail(t.flag, "NotAFunction", ErrorLines(t.args, i))
          ELSE /\ FLAGS' = FLAGS
               /\ Fail(NoName, "UnrecognizedFlag", ErrorLines(t.args, i))
    /\ UNCHANGED <<GLOBAL_FLAGS, everDeclared, parseCalled, exitOnError, nparse, parseReturned>>

\* arg.startsWith("--"): a flag token; for an inherited property
\* FLAGS[flag].set is undefined, and the TypeError of calling it is caught
\* and raised again as a parse error
ScanFlag ==
    /\ Scanning
    /\ args[i + 1] # DASHES
    /\ StartsWith(args[i + 1], DASHES)
    /\ LET t == ScanToken(args, i, FLAGS)
       IN IF t.flag \in DOMAIN FLAGS
          THEN LET r == DescriptorSet(FLAGS[t.flag], t.value)
               IN /\ FLAGS' = [FLAGS EXCEPT ![t.flag] = r.f]
                  /\ IF r.err = "none"
                     THEN /\ args' = t.args
                          /\ i' = i + 1
                          /\ UNCHANGED <<pc, ign, argv, exited, last>>
                     ELSE Fail(t.flag, r.err, ErrorLines(t.args, i))
          ELSE IF Has(FLAGS, t.flag)
          THEN /\ FLAGS' = FLAGS
               /\ Fail(t.flag, "NotAFunction", ErrorLines(t.args, i))
          ELSE /\ FLAGS' = FLAGS
               /\ IF ign
                  THEN /\ args' = t.args
                       /\ i' = i + 1
                       /\ UNCHANGED <<pc, ign, argv, exited, last>>
                  ELSE Fail(NoName, "UnrecognizedFlag", ErrorLines(t.args, i))
    /\ UNCHANGED <<GLOBAL_FLAGS, everDeclared, parseCalled, exitOnError, nparse, parseReturned>>

\* the last branch, skipping the element when ignoreUnrecognized is true
ScanInvalidUnlessIgnoring ==
    /\ Scanning
    /\ ~StartsWith(args[i + 1], DASHES)
    /\ IF ign
       THEN i' = i + 1 /\ UNCHANGED <<pc, args, ign, argv, exited, last>>
       ELSE Fail(NoName, "InvalidArgument", ErrorLines(args, i))
    /\ UNCHANGED <<GLOBAL_FLAGS, everDeclared, FLAGS, parseCalled, exitOnError, nparse, parseReturned>>

\* any other token: throwFlagParseError(args, i, 'Invalid argument ...')
\* the last branch, setting the latch as it raises
ScanInvalidCommits ==
    /\ Scanning
    /\ ~StartsWith(args[i + 1], DASHES)
    /\ Fail(NoName, "InvalidArgument", ErrorLines(args, i))
    /\ parseCalled' = TRUE
    /\ UNCHANGED <<GLOBAL_FLAGS, everDeclared, FLAGS, exitOnError, nparse, parseReturned>>

ScanInvalid ==
    /\ Scanning
    /\ ~StartsWith(args[i + 1], DASHES)
    /\ Fail(NoName, "InvalidArgument", ErrorLines(args, i))
    /\ UNCHANGED <<GLOBAL_FLAGS, everDeclared, FLAGS, parseCalled, exitOnError, nparse, parseReturned>>

\* the required flags, set or not: the check without its isSet test
RequiredFlags(flags) == {n \in DOMAIN flags : flags[n].isRequired}

\* the required flags that were never set
MissingRequired(flags) == {n \in DOMAIN flags : flags[n].isRequired /\ ~flags[n].isSet}

\* after the loop: a required flag was never set
ScanMissingRequired ==
    /\ pc = "scan"
    /\ i >= Len(args)
    /\ \E n \in MissingRequired(FLAGS) : Fail(n, "MissingRequired", NoLines)
    /\ UNCHANGED <<GLOBAL_FLAGS, everDeclared, FLAGS, parseCalled, exitOnError, nparse, parseReturned>>

\* help(): the flags whose help string is printed
Help(flags) == {n \in DOMAIN flags : ~flags[n].isSecret}

\* after the loop: parseCalled = true, the help interception, return []
ScanEnd ==
    /\ pc = "scan"
    /\ i >= Len(args)
    /\ MissingRequired(FLAGS) = {}
    /\ parseCalled' = TRUE
    /\ pc' = "idle"
    /\ NoLocals
    /\ IF Truthy(DescriptorGet(FLAGS[HELP]))
       THEN /\ exited' = "0"
            /\ last' = [Exited("parse", NoName, "none") EXCEPT !.listed = Help(FLAGS)]
            /\ UNCHANGED parseReturned
       ELSE /\ exited' = exited
            /\ last' = Returned("parse", NoName, ListV(<<>>))
            /\ parseReturned' = TRUE
    /\ UNCHANGED <<GLOBAL_FLAGS, everDeclared, FLAGS, exitOnError, nparse>>

----------------------------------------------------------------------------
(* Inputs *)

X == <<"x">>
NOX == <<"n", "o", "x">>
XEQ == <<"-", "-", "x", "=">>

\* the default values a define<Kind> call is given (undefined: none given)
DefaultArgs(kind) ==
    CASE kind = "String" -> {UndefV, StrV(<<"d">>)}
      [] kind = "Boolean" -> {UndefV, BoolV(TRUE)}
      [] kind = "Integer" -> {UndefV, NumV(7, 0)}
      [] kind = "Number" -> {UndefV, NumV(15, 1)}
      [] OTHER -> {UndefV, ListV(<<<<"d">>>>)}

\* the values setDefault is given
TypedDefaults(kind) == (DefaultArgs(kind) \ {UndefV}) \cup {KindDefault(kind)}

\* the argument vectors of length n over a token set
ArgVectors(tokens, n) == [1..n -> tokens]

\* the lengths of the vectors a parse call is given: once the latch is set
\* parse returns before it reads its arguments (part_000:173), and the empty
\* vector stands for them all
ArgLengths(max) == IF parseCalled THEN {0} ELSE 0..max

----------------------------------------------------------------------------
(* Specifications *)

Init ==
    /\ FLAGS = InternalFlags
    /\ parseCalled = FALSE
    /\ exitOnError = TRUE
    /\ exited = "no"
    /\ pc = "idle"
    /\ args = <<>>
    /\ i = 0
    /\ ign = FALSE
    /\ argv = <<>>
    /\ nparse = 0
    /\ parseReturned = FALSE
    /\ last = Call("load", NoName)
    /\ GLOBAL_FLAGS = REGISTRY
    /\ everDeclared = DOMAIN InternalFlags

\* the steps of a parse call in progress
Scan == ScanSeparator \/ ScanFlag \/ ScanInvalid \/ ScanEnd

(* The lifecycle: declarations, parse calls and resets in any order. *)

Tokens ==
    { DASHES,
      <<"-", "-", "x">>,
      <<"-", "-", "x", "=", "a", "b">>,
      <<"-", "-", "n", "o", "x">>,
      <<"a">> }

MaxArgs == 2

MaxParses == 2

Next ==
    \/ \E n \in {X, HELP}, k \in Kinds : \E d \in DefaultArgs(k) : Define(n, k, d)
    \/ /\ X \in DOMAIN FLAGS
       /\ \E d \in TypedDefaults(FLAGS[X].kind) : SetDefault(X, d)
    \/ \E b \in BOOLEAN : SetRequired(X, b)
    \/ \E b \in BOOLEAN : SetExitOnError(b)
    \/ Reset
    \/ /\ CanParse(MaxParses)
       /\ \E n \in 0..MaxArgs : \E a \in ArgVectors(Tokens, n) :
              ParseCall(a, FALSE, MaxParses)
    \/ Scan
    \/ ScanMissingRequired

Spec == Init /\ [][Next]_vars

(* The scan: one parse call over every short vector of a richer token set. *)

ScanTokens ==
    { DASHES,
      <<"-", "-", "x">>,
      <<"-", "-", "x", "=", "a">>,
      <<"-", "-", "x", "=">>,
      <<"-", "-", "x", "=", "a", "=", "b">>,
      <<"-", "-", "y">>,
      <<"a">>,
      <<>> }

ScanKinds == {"String", "Boolean"}

MaxScanArgs == 4

NextScan ==
    \/ \E k \in ScanKinds : \E d \in DefaultArgs(k) : Define(X, k, d)
    \/ /\ CanParse(1)
       /\ \E n \in ArgLengths(MaxScanArgs) : \E a \in ArgVectors(ScanTokens, n), g \in BOOLEAN :
              ParseCall(a, g, 1)
    \/ Scan

SpecScan == Init /\ [][NextScan]_vars

(* The values: one parse call that gives a flag of any kind, with or without *)
(* a validator, each of a set of literals.                                   *)

\* the literals a flag token carries after its `=`
Literals ==
    { <<>>,
      <<"1">>,
      <<"0">>,
      <<"t">>,
      <<"T", "R", "U", "E">>,
      <<"F", "a", "l", "s", "e">>,
      <<"2">>,
      <<"1", "2">>,
      <<"1", ".", "5">>,
      <<"1", ".", "0">>,
      <<"1", "a">>,
      <<"a", ",", "b">>,
      <<"a", ",", ",", "a">> }

ValueTokens ==
    {XEQ \o v : v \in Literals} \cup {<<"-", "-", "x">>, DASHES, <<"0">>}

MaxValueArgs == 2

NextValues ==
    \/ \E k \in Kinds : \E d \in DefaultArgs(k) : Define(X, k, d)
    \/ \E v \in Validators : SetValidator(X, v)
    \/ /\ CanParse(1)
       /\ \E n \in ArgLengths(MaxValueArgs) : \E a \in ArgVectors(ValueTokens, n) :
              ParseCall(a, FALSE, 1)
    \/ Scan

SpecValues == Init /\ [][NextValues]_vars

(* The help interception: one parse call over vectors that name `help`. *)

HelpTokens ==
    { DASHES,
      <<"-", "-", "h", "e", "l", "p">>,
      <<"-", "-", "h", "e", "l", "p", "=", "1">>,
      <<"-", "-", "h", "e", "l", "p", "=", "0">>,
      <<"-", "-", "n", "o", "h", "e", "l", "p">>,
      <<"-", "-", "x">>,
      <<"a">> }

MaxHelpArgs == 3

NextHelp ==
    \/ \E k \in ScanKinds : Define(X, k, UndefV)
    \/ \E b \in BOOLEAN : SetSecret(X, b)
    \/ \E b \in BOOLEAN : SetExitOnError(b)
    \/ /\ CanParse(1)
       /\ \E n \in ArgLengths(MaxHelpArgs) : \E a \in ArgVectors(HelpTokens, n) :
              ParseCall(a, FALSE, 1)
    \/ Scan

SpecHelp == Init /\ [][NextHelp]_vars

(* The switches: one parse call over `--x` and `--nox` tokens, with either *)
(* name declared or not.                                                   *)

SwitchNames == {X, NOX}

SwitchKinds == {"String", "Boolean", "Integer"}

SwitchTokens ==
    { DASHES,
      DASHES \o X,
      DASHES \o NOX,
      DASHES \o NOX \o <<"=", "1">>,
      <<"1">>,
      <<>> }

MaxSwitchArgs == 2

NextSwitch ==
    \/ \E n \in SwitchNames, k \in SwitchKinds : Define(n, k, UndefV)
    \/ /\ CanParse(1)
       /\ \E n \in ArgLengths(MaxSwitchArgs) : \E a \in ArgVectors(SwitchTokens, n) :
              ParseCall(a, FALSE, 1)
    \/ Scan

SpecSwitch == Init /\ [][NextSwitch]_vars

(* The reads: get and isSet between declarations, one parse call and resets, *)
(* over names that are declared, undeclared, and inherited by the mapping.   *)

ReadNames == {X, VALUEOF}

ReadTokens ==
    { DASHES,
      XEQ \o <<"a">>,
      DASHES \o VALUEOF,
      <<"a">> }

MaxReadArgs == 2

NextRead ==
    \/ \E n \in ReadNames, k \in ScanKinds : Define(n, k, UndefV)
    \/ \E v \in Validators : SetValidator(X, v)
    \/ \E b \in BOOLEAN : SetExitOnError(b)
    \/ Reset
    \/ \E n \in ReadNames \cup {NOX} : Get(n)
    \/ \E n \in ReadNames \cup {NOX} : IsSet(n)
    \/ /\ CanParse(1)
       /\ \E n \in ArgLengths(MaxReadArgs) : \E a \in ArgVectors(ReadTokens, n), g \in BOOLEAN :
              ParseCall(a, g, 1)
    \/ Scan

SpecRead == Init /\ [][NextRead]_vars

----------------------------------------------------------------------------
(* Claims *)

\* a step that is a call of define<Kind>, of reset, of parse
DefineStep == pc = "idle" /\ last'.op = "define"
ResetStep == pc = "idle" /\ last'.op = "reset"
ParseCallStep == pc = "idle" /\ last'.op = "parse"

\* C1: once a parse call has returned normally, every later parse call made
\* before reset() returns an empty sequence and changes no descriptor.
C1_ParseCommitsOnce ==
    [][parseReturned =>
          /\ (ParseCallStep \/ pc = "scan") => FLAGS' = FLAGS
          /\ (last'.op = "parse" /\ last'.status = "returned") => last'.val = ListV(<<>>)]_vars

\* C2: once a parse call has returned normally, every define<Kind> call fails
\* with the registration-after-parse error and adds nothing, until reset().
C2_NoDefineAfterParse ==
    [][(parseReturned /\ DefineStep) =>
          /\ last'.status = "threw"
          /\ last'.err = "RegisterAfterParse"
          /\ FLAGS' = FLAGS]_vars

\* C3 as claimed: a define<Kind> call whose name is already in the registry
\* raises the duplicate-flag error and leaves the registry unchanged.
C3_DuplicateAlwaysDuplicateError ==
    [][(DefineStep /\ last'.name \in DOMAIN FLAGS) =>
          /\ last'.status = "threw"
          /\ last'.err = "Duplicate"
          /\ FLAGS' = FLAGS]_vars

\* C3 as amended: a define<Kind> call whose name is already in the registry
\* throws and leaves the registry unchanged; the error is the duplicate-flag
\* error while the parse-completed latch is clear and the
\* registration-after-parse error once it is set.
C3_DuplicateRejected ==
    [][(DefineStep /\ last'.name \in DOMAIN FLAGS) =>
          /\ last'.status = "threw"
          /\ last'.err = IF parseCalled THEN "RegisterAfterParse" ELSE "Duplicate"
          /\ FLAGS' = FLAGS]_vars

\* a duplicate define was rejected while the descriptor held a parsed value
C3_Witness ==
    /\ last.op = "define"
    /\ last.err = "Duplicate"
    /\ last.name \in DOMAIN FLAGS
    /\ FLAGS[last.name].isSet

\* the registry right after reset(): `help` alone, Boolean, secret, default false
HelpOnly ==
    (HELP :> [kind |-> "Boolean", defaultValue |-> BoolV(FALSE),
              currentValue |-> NullV, validator |-> "none", isSecret |-> TRUE,
              isRequired |-> FALSE, isSet |-> FALSE])

\* C4: after reset() the registry holds exactly the built-in `help` descriptor
\* and the latch is clear: a define of another name succeeds and the next
\* parse call scans its arguments.
C4_ResetReseeds ==
    [][/\ ResetStep =>
            /\ FLAGS' = HelpOnly
            /\ ~parseCalled'
       /\ (last.op = "reset" /\ DefineStep /\ last'.name # HELP) =>
            /\ last'.status = "returned"
            /\ DOMAIN FLAGS' = {HELP, last'.name}
       /\ (last.op = "reset" /\ ParseCallStep) =>
            /\ pc' = "scan"
            /\ args' = argv' /\ i' = 0]_vars

\* reset() has just returned, with errors raised rather than exiting
C4_Witness ==
    /\ last.op = "reset"
    /\ last.status = "returned"
    /\ FLAGS = HelpOnly
    /\ ~parseCalled
    /\ ~exitOnError

\* what get(name) is to return for descriptor f: the default until the flag
\* is set, then the stored value; a strict boolean for a Boolean flag
Reads(f, v) ==
    LET held == IF f.isSet THEN f.currentValue ELSE f.defaultValue
    IN IF f.kind = "Boolean"
       THEN v.t = "boolean" /\ v = BoolV(Truthy(held))
       ELSE v = held

\* C5: get(name) returns the default (as given at define or last changed by
\* setDefault) while isSet is false and the value stored by parsing once it is
\* true; a Boolean flag always reads a strict boolean, false when it was
\* declared with no default and is unset.
C5_GetReadsDefaultThenValue ==
    [][/\ \A n \in DOMAIN FLAGS' : Reads(FLAGS'[n], DescriptorGet(FLAGS'[n]))
       /\ (DefineStep /\ last'.status = "returned") =>
            LET f == FLAGS'[last'.name]
            IN /\ ~f.isSet
               /\ last'.arg # UndefV => f.defaultValue = last'.arg
               /\ (last'.arg = UndefV /\ f.kind = "Boolean") =>
                      DescriptorGet(f) = BoolV(FALSE)
       /\ (pc = "idle" /\ last'.op = "setDefault") =>
            FLAGS'[last'.name].defaultValue = last'.arg
       /\ \A n \in DOMAIN FLAGS \cap DOMAIN FLAGS' :
            FLAGS'[n].defaultValue # FLAGS[n].defaultValue =>
                pc = "idle" /\ last'.op = "setDefault" /\ last'.name = n]_vars

\* a String flag declared with a default reads the value parse stored
C5_Witness ==
    /\ X \in DOMAIN FLAGS
    /\ FLAGS[X].kind = "String"
    /\ FLAGS[X].isSet
    /\ FLAGS[X].defaultValue = StrV(<<"d">>)
    /\ DescriptorGet(FLAGS[X]) = StrV(<<"a", "b">>)

\* the token at the scan position is `--x=v`; ValueOfX is v
AtXEquals == pc = "scan" /\ i < Len(args) /\ StartsWith(args[i + 1], XEQ)
ValueOfX == Slice(args[i + 1], Len(XEQ))

\* C6: each occurrence `--x=v` of a MultiString flag x appends exactly one
\* element, v, to the sequence get(x) returns, and isSet(x) is true from the
\* first occurrence on.
C6_MultiStringAppendsValue ==
    [][(/\ AtXEquals
        /\ X \in DOMAIN FLAGS
        /\ FLAGS[X].kind = "MultiString") =>
          LET before == IF FLAGS[X].isSet THEN FLAGS[X].currentValue.l ELSE <<>>
          IN /\ FLAGS'[X].isSet
             /\ DescriptorGet(FLAGS'[X]) = ListV(before \o <<ValueOfX>>)]_vars

\* the scan has reached the end of the argument array
AtEnd == pc = "scan" /\ i >= Len(args)

AfterFirstSeparator(v) ==
    IF \E k \in 1..Len(v) : v[k] = DASHES
    THEN LET k == CHOOSE k \in 1..Len(v) :
                      v[k] = DASHES /\ \A j \in 1..(k - 1) : v[j] # DASHES
         IN SubSeq(v, k + 1, Len(v))
    ELSE <<>>

\* C8: a parse call that returns normally returns exactly the elements after
\* the first `--` of the vector it was given, in order and unchanged, and the
\* empty sequence if there is none; the `--` ends the call with no descriptor
\* changed, so no trailing element is scanned.
C8_ReturnsTrailing ==
    [][/\ (pc = "scan" /\ last'.op = "parse" /\ last'.status = "returned") =>
            last'.val = ListV(AfterFirstSeparator(argv))
       /\ (Scanning /\ args[i + 1] = DASHES) =>
            /\ FLAGS' = FLAGS
            /\ pc' = "idle"
            /\ last'.status = "returned"]_vars

\* parse returned a trailing `--`-prefixed element after x was set
C8_Witness ==
    /\ last.op = "parse"
    /\ last.status = "returned"
    /\ last.val = ListV(<< <<"-", "-", "x", "=", "a", "=", "b">> >>)
    /\ X \in DOMAIN FLAGS
    /\ FLAGS[X].isSet
    /\ FLAGS[X].currentValue = StrV(<<"a">>)

\* the token at the scan position is `--x`, with no `=`
AtBareX == Scanning /\ args[i + 1] = <<"-", "-", "x">>

\* C9: when a flag token carries no `=` and the next element exists and does
\* not begin with `--` (the empty string included), that element becomes the
\* flag's value and scanning resumes after it; when the next element is absent
\* or begins with `--` the value is null and the next element is scanned as a
\* token of its own.
C9_NextElementIsValue ==
    [][(AtBareX /\ X \in DOMAIN FLAGS /\ ~FLAGS[X].isSet) =>
          IF i + 2 <= Len(args) /\ ~StartsWith(args[i + 2], DASHES)
          THEN FLAGS[X].kind = "String" =>
                  /\ FLAGS'[X].isSet
                  /\ FLAGS'[X].currentValue = StrV(args[i + 2])
                  /\ pc' = "scan" /\ i' = i + 1
                  /\ Len(args') = Len(args) - 1
                  /\ SubSeq(args', i + 2, Len(args')) = SubSeq(args, i + 3, Len(args))
          ELSE /\ FLAGS[X].kind = "String" =>
                  /\ last'.err = "InvalidString"
                  /\ ~FLAGS'[X].isSet
               /\ FLAGS[X].kind = "Boolean" =>
                  /\ FLAGS'[X].isSet
                  /\ FLAGS'[X].currentValue = BoolV(TRUE)
                  /\ pc' = "scan" /\ i' = i + 1
                  /\ args' = args]_vars

\* the token at the scan position is `--name=rest`, its first `=` at position k
EqualsAt(arg, k) ==
    /\ k \in 3..Len(arg)
    /\ StartsWith(arg, DASHES)
    /\ arg[k] = "="
    /\ \A j \in 3..(k - 1) : arg[j] # "="

\* C10: for a token `--name=rest` the flag name is the text before the first
\* `=` and the value is everything after it, verbatim; a String flag set this
\* way reads back that value, and the following element is not consumed.
C10_EqualsSplitsAtFirst ==
    [][Scanning =>
          \A k \in 3..Len(args[i + 1]) :
             (/\ EqualsAt(args[i + 1], k)
              /\ SubSeq(args[i + 1], 3, k - 1) \in DOMAIN FLAGS) =>
                LET name == SubSeq(args[i + 1], 3, k - 1)
                    rest == SubSeq(args[i + 1], k + 1, Len(args[i + 1]))
                IN (FLAGS[name].kind = "String" /\ ~FLAGS[name].isSet) =>
                      /\ FLAGS'[name].isSet
                      /\ DescriptorGet(FLAGS'[name]) = StrV(rest)
                      /\ pc' = "scan" /\ i' = i + 1
                      /\ args' = args]_vars

\* a String flag reads back a value that holds a further `=`
C10_Witness ==
    /\ X \in DOMAIN FLAGS
    /\ FLAGS[X].kind = "String"
    /\ FLAGS[X].isSet
    /\ DescriptorGet(FLAGS[X]) = StrV(<<"a", "=", "b">>)

\* the token at the scan position is `--nox`, and no element after it can be
\* its value: it is the last one, or the next begins with `--`
AtBareNoX ==
    /\ Scanning
    /\ args[i + 1] = DASHES \o NOX
    /\ (i + 2 > Len(args) \/ StartsWith(args[i + 2], DASHES))

\* C11: for a declared Boolean flag x that is not yet set, with no flag `nox`
\* declared, a token `--nox` with no value sets x: get(x) is false and
\* isSet(x) is true afterwards, whatever x's default, and the scan goes on.
C11_NoPrefixSetsFalse ==
    [][(/\ AtBareNoX
        /\ X \in DOMAIN FLAGS
        /\ NOX \notin DOMAIN FLAGS
        /\ FLAGS[X].kind = "Boolean"
        /\ ~FLAGS[X].isSet) =>
          /\ FLAGS'[X].isSet
          /\ DescriptorGet(FLAGS'[X]) = BoolV(FALSE)
          /\ FLAGS'[X].defaultValue = FLAGS[X].defaultValue
          /\ pc' = "scan" /\ i' = i + 1]_vars

\* `--nox` has just set to false a Boolean x whose default is true
C11_Witness ==
    /\ pc = "scan"
    /\ i = 1
    /\ argv[1] = DASHES \o NOX
    /\ X \in DOMAIN FLAGS
    /\ FLAGS[X].kind = "Boolean"
    /\ FLAGS[X].defaultValue = BoolV(TRUE)
    /\ FLAGS[X].isSet
    /\ DescriptorGet(FLAGS[X]) = BoolV(FALSE)

\* the token at the scan position gives x a value: `--x=v` gives the literal
\* v, and `--x` that is last or followed by a `--` element gives null
AtBareXNoValue == AtBareX /\ (i + 2 > Len(args) \/ StartsWith(args[i + 2], DASHES))
AtXValue == AtXEquals \/ AtBareXNoValue
GivenNull == AtBareXNoValue

\* x is declared with the given kind, is not yet set, and has no validator
\* that raises
Unset(kind) ==
    /\ X \in DOMAIN FLAGS
    /\ FLAGS[X].kind = kind
    /\ ~FLAGS[X].isSet
    /\ FLAGS[X].validator # "throws"

\* the step sets x to value v and the scan goes on
SetsX(v) ==
    /\ FLAGS'[X].isSet
    /\ DescriptorGet(FLAGS'[X]) = v
    /\ pc' = "scan" /\ i' = i + 1

\* the step ends the parse call with the given error and its positional
\* context, and x stays unset and reads its default
FailsX(err) ==
    /\ last'.op = "parse"
    /\ last'.status \in {"threw", "exited"}
    /\ last'.err = err
    /\ last'.line # <<>> /\ last'.carets # <<>>
    /\ pc' = "idle"
    /\ ~FLAGS'[X].isSet
    /\ DescriptorGet(FLAGS'[X]) = DescriptorGet(FLAGS[X])
    /\ FLAGS'[X].defaultValue = FLAGS[X].defaultValue

\* the spellings of true and of false among the literals
TrueLiterals == {<<"1">>, <<"t">>, <<"T", "R", "U", "E">>}
FalseLiterals == {<<"0">>, <<"F", "a", "l", "s", "e">>}

\* C12: a Boolean flag given null reads true; given `1`, `true` or `t` in
\* any case it reads true; given `0`, `false` or `f` in any case it reads
\* false; given any other literal the parse call fails with a positional
\* invalid-Boolean error and the flag stays unset and reads its default.
C12_BooleanCoercion ==
    [][(AtXValue /\ Unset("Boolean")) =>
          IF GivenNull THEN SetsX(BoolV(TRUE))
          ELSE IF ValueOfX \in TrueLiterals THEN SetsX(BoolV(TRUE))
          ELSE IF ValueOfX \in FalseLiterals THEN SetsX(BoolV(FALSE))
          ELSE FailsX("InvalidBoolean")]_vars

\* `--x=False` has set to false a Boolean x whose default is true
C12_Witness ==
    /\ pc = "scan"
    /\ i = 1
    /\ argv[1] = XEQ \o <<"F", "a", "l", "s", "e">>
    /\ X \in DOMAIN FLAGS
    /\ FLAGS[X].kind = "Boolean"
    /\ FLAGS[X].defaultValue = BoolV(TRUE)
    /\ FLAGS[X].isSet
    /\ DescriptorGet(FLAGS[X]) = BoolV(FALSE)

\* s is digits up to position k and from there on nothing, or a `.` and
\* zeros: the literals whose numeric value is the integer they begin with
IntegerUpTo(s, k) ==
    /\ k \in 1..Len(s)
    /\ \A j \in 1..k : s[j] \in Digits
    /\ k < Len(s) => s[k + 1] = "."
    /\ \A j \in (k + 2)..Len(s) : s[j] = "0"

\* C13: an Integer flag is set exactly when its literal is a whole number in
\* base 10, and then reads that integer; a null value, the empty literal, a
\* fraction such as `1.5` and a non-numeric literal end the parse call with
\* a positional invalid-Integer error, the flag unset and reading its default.
C13_IntegerCoercion ==
    [][(AtXValue /\ Unset("Integer")) =>
          IF GivenNull THEN FailsX("InvalidInteger")
          ELSE IF \E k \in 1..Len(ValueOfX) : IntegerUpTo(ValueOfX, k)
          THEN \A k \in 1..Len(ValueOfX) :
                  IntegerUpTo(ValueOfX, k) =>
                      SetsX(NumV(DigitsVal(SubSeq(ValueOfX, 1, k)), 0))
          ELSE FailsX("InvalidInteger")]_vars

\* `--x=12` has set to 12 an Integer x whose default is 7
C13_Witness ==
    /\ pc = "scan"
    /\ i = 1
    /\ argv[1] = XEQ \o <<"1", "2">>
    /\ X \in DOMAIN FLAGS
    /\ FLAGS[X].kind = "Integer"
    /\ FLAGS[X].defaultValue = NumV(7, 0)
    /\ FLAGS[X].isSet
    /\ DescriptorGet(FLAGS[X]) = NumV(12, 0)

\* C14: a String flag whose token `--x` carries no `=` and is last in the
\* vector or followed by an element beginning with `--` is given null: the
\* parse call fails with a positional invalid-String error, and the flag
\* stays unset and reads its default.
C14_StringNeedsValue ==
    [][(/\ AtBareXNoValue
        /\ X \in DOMAIN FLAGS
        /\ FLAGS[X].kind = "String"
        /\ ~FLAGS[X].isSet) => FailsX("InvalidString")]_vars

\* `--x` followed by `--` has ended the parse call with the invalid-String
\* error, and x reads its default
C14_Witness ==
    /\ last.op = "parse"
    /\ last.err = "InvalidString"
    /\ last.line = ContextLine(<<DASHES \o X, DASHES>>)
    /\ X \in DOMAIN FLAGS
    /\ ~FLAGS[X].isSet
    /\ DescriptorGet(FLAGS[X]) = StrV(<<"d">>)

\* l is the literal v cut at every `,`: no segment holds a `,`, and the
\* segments joined by `,` are v again
CutAtCommas(l, v) ==
    /\ Len(l) >= 1
    /\ \A k \in 1..Len(l) : \A j \in 1..Len(l[k]) : l[k][j] # ","
    /\ Join(l, <<",">>) = v

\* C15: a StringList flag set from literal v reads v cut at every `,`, in
\* order, duplicates and empty segments kept; set from null it reads the
\* empty sequence, and isSet is true.
C15_StringListSplits ==
    [][(AtXValue /\ Unset("StringList")) =>
          IF GivenNull THEN SetsX(ListV(<<>>))
          ELSE /\ FLAGS'[X].isSet
               /\ DescriptorGet(FLAGS'[X]).t = "array"
               /\ CutAtCommas(DescriptorGet(FLAGS'[X]).l, ValueOfX)
               /\ pc' = "scan" /\ i' = i + 1]_vars

\* `--x=a,,a` has set a StringList x to "a", "", "a"
C15_Witness ==
    /\ pc = "scan"
    /\ i = 1
    /\ argv[1] = XEQ \o <<"a", ",", ",", "a">>
    /\ X \in DOMAIN FLAGS
    /\ FLAGS[X].kind = "StringList"
    /\ FLAGS[X].isSet
    /\ DescriptorGet(FLAGS[X]) = ListV(<< <<"a">>, <<>>, <<"a">> >>)

\* the name a flag token carries: the text between its `--` and its first
\* `=`, or its end
TokenName(arg) ==
    IF \E k \in 3..Len(arg) : EqualsAt(arg, k)
    THEN SubSeq(arg, 3, (CHOOSE k \in 3..Len(arg) : EqualsAt(arg, k)) - 1)
    ELSE SubSeq(arg, 3, Len(arg))

HasEquals(arg) == \E k \in 3..Len(arg) : arg[k] = "="

\* the token at the scan position is a flag token that names no descriptor,
\* neither as it stands nor with a `no` prefix taken off
AtUnrecognized ==
    /\ Scanning
    /\ StartsWith(args[i + 1], DASHES)
    /\ args[i + 1] # DASHES
    /\ TokenName(args[i + 1]) \notin DOMAIN FLAGS
    /\ StartsWith(TokenName(args[i + 1]), <<"n", "o">>) =>
           Slice(TokenName(args[i + 1]), 2) \notin DOMAIN FLAGS

C17_InvalidArgument ==
    [][(Scanning /\ ~StartsWith(args[i + 1], DASHES)) =>
          /\ last'.op = "parse"
          /\ last'.status \in {"threw", "exited"}
          /\ last'.err = "InvalidArgument"
          /\ last'.arg = BoolV(ign)
          /\ pc' = "idle"
          /\ FLAGS' = FLAGS
          /\ parseCalled' = parseCalled]_vars

\* with ignoreUnrecognized true, a parse call that had set x ended with the
\* invalid-argument error
C17_Witness ==
    /\ last.op = "parse"
    /\ last.err = "InvalidArgument"
    /\ last.arg = BoolV(TRUE)
    /\ X \in DOMAIN FLAGS
    /\ FLAGS[X].isSet

\* x is declared, not yet set, and the token at the scan position gives it a
\* value that its kind accepts
AtAcceptedValue ==
    /\ AtXValue
    /\ X \in DOMAIN FLAGS
    /\ ~FLAGS[X].isSet
    /\ \/ FLAGS[X].kind \in {"String", "MultiString"} /\ AtXEquals
       \/ FLAGS[X].kind = "StringList"
       \/ FLAGS[X].kind = "Boolean" /\ GivenNull
       \/ FLAGS[X].kind \in {"Integer", "Number"} /\ AtXEquals /\ ValueOfX = <<"1", "2">>

\* C18: for a flag with a validator, given a value its kind accepts, the
\* parse step sets the flag (isSet true, get reads the coerced value) when the
\* validator does not raise, even if it returns false; when the validator
\* raises, the parse call fails with a positional error that carries the
\* validator's message, isSet stays false and get reads the default.
C18_ValidatorRaisesToReject ==
    [][AtAcceptedValue =>
          /\ FLAGS[X].validator = "returnsFalse" =>
                /\ FLAGS'[X].isSet
                /\ pc' = "scan" /\ i' = i + 1
                /\ FLAGS[X].kind = "String" => DescriptorGet(FLAGS'[X]) = StrV(ValueOfX)
                /\ FLAGS[X].kind = "Boolean" => DescriptorGet(FLAGS'[X]) = BoolV(TRUE)
                /\ FLAGS[X].kind \in {"Integer", "Number"} =>
                       DescriptorGet(FLAGS'[X]) = NumV(12, 0)
          /\ FLAGS[X].validator = "throws" => FailsX("BadInput")]_vars

\* a parse call has ended with the validator's error, and the Integer x it
\* was given 12 for is unset and reads its default, 7
C18_Witness ==
    /\ last.op = "parse"
    /\ last.err = "BadInput"
    /\ last.line = ContextLine(<<XEQ \o <<"1", "2">> >>)
    /\ X \in DOMAIN FLAGS
    /\ FLAGS[X].kind = "Integer"
    /\ FLAGS[X].validator = "throws"
    /\ ~FLAGS[X].isSet
    /\ DescriptorGet(FLAGS[X]) = NumV(7, 0)

\* the width on the context line of the first k elements of a, each with the
\* space that follows it
RECURSIVE Width(_, _)
Width(a, k) == IF k = 0 THEN 0 ELSE Width(a, k - 1) + Len(a[k]) + 1

\* the carets of a caret line, and the column (from 0) of the first of them
CaretCount(c) == Cardinality({k \in 1..Len(c) : c[k] = "^"})
CaretColumn(c) == Len(c) - CaretCount(c)

\* C19: when a parse call fails at a token, the context line of the error is
\* the argument vector as passed, joined by single spaces (after the two
\* spaces that indent it); the carets on the next line come last on it, begin
\* in the column where the offending token begins on the context line,
\* whether it is the first token or a later one, and are as many as the token
\* has characters (the token alone, or the token with the value element
\* that was joined to it).
C19_CaretsUnderToken ==
    [][(Scanning /\ Len(args[i + 1]) > 0 /\ last'.status \in {"threw", "exited"}) =>
          /\ last'.line = <<" ", " ">> \o Join(argv, <<" ">>)
          /\ \A k \in 1..CaretColumn(last'.carets) : last'.carets[k] = " "
          /\ CaretColumn(last'.carets) = 2 + Width(args, i)
          /\ \/ CaretCount(last'.carets) = Len(args[i + 1])
             \/ /\ i + 2 <= Len(args)
                /\ CaretCount(last'.carets) = Len(args[i + 1]) + 1 + Len(args[i + 2])]_vars

\* C20: a parse call that has set the built-in `help` flag to true and meets
\* no error does not return: it ends the process with status 0, after help()
\* has listed exactly the descriptors that are not secret.
C20_HelpEndsProcess ==
    [][(/\ pc = "scan"
        /\ pc' = "idle"
        /\ last'.err = "none"
        /\ DescriptorGet(FLAGS'[HELP]) = BoolV(TRUE)) =>
          /\ last'.status = "exited"
          /\ exited' = "0"
          /\ last'.listed = {n \in DOMAIN FLAGS : ~FLAGS[n].isSecret}]_vars

\* the element after the token at the scan position is taken as its value
\* when the token has no `=`: it is there, not empty, and does not begin
\* with `--`
NextIsTaken ==
    /\ ~HasEquals(args[i + 1])
    /\ i + 2 <= Len(args)
    /\ args[i + 2] # <<>>
    /\ ~StartsWith(args[i + 2], DASHES)

\* the declared flags the token at the scan position names: the one of its
\* name, or else, for a name in `no` with no value, the one of the rest
NamedHere ==
    IF ~(Scanning /\ StartsWith(args[i + 1], DASHES) /\ args[i + 1] # DASHES) THEN {}
    ELSE LET name == TokenName(args[i + 1])
         IN IF name \in DOMAIN FLAGS THEN {name}
            ELSE IF /\ StartsWith(name, <<"n", "o">>)
                    /\ ~HasEquals(args[i + 1])
                    /\ ~NextIsTaken
                 THEN {Slice(name, 2)} \cap DOMAIN FLAGS
                 ELSE {}

\* C21 as claimed: no parse call fails with the already-set error.
C21_ParseNeverAlreadySet ==
    last.op = "parse" => last.err # "AlreadySet"

\* C21 as amended: a parse call fails with the already-set error at a token
\* exactly when the token names a flag that is not a MultiString and is
\* already set, by an earlier token or by an earlier parse call that did not
\* set the latch; the descriptor is left as it was.
C21_AlreadySetOnSecondOccurrence ==
    [][pc = "scan" =>
          /\ (last'.err = "AlreadySet") <=>
                \E n \in NamedHere : FLAGS[n].isSet /\ FLAGS[n].kind # "MultiString"
          /\ last'.err = "AlreadySet" =>
                /\ last'.status \in {"threw", "exited"}
                /\ FLAGS' = FLAGS]_vars

\* a parse call was raised the already-set error for x
C21_Witness ==
    /\ last.op = "parse"
    /\ last.status = "threw"
    /\ last.err = "AlreadySet"
    /\ last.name = X
    /\ FLAGS[X].isSet

\* C22: in every state global.GLOBAL_FLAGS refers to the object the exported
\* FLAGS is bound to, so the two are one mapping with the same descriptors;
\* reset() leaves that binding as it is and empties and reseeds the mapping:
\* afterwards it holds `help` alone.
C22_OneMapping ==
    [][/\ GLOBAL_FLAGS = REGISTRY
       /\ GLOBAL_FLAGS' = REGISTRY
       /\ ResetStep =>
            /\ GLOBAL_FLAGS' = GLOBAL_FLAGS
            /\ FLAGS' = HelpOnly]_vars

\* reset() has emptied a mapping that held x, and global.GLOBAL_FLAGS still
\* refers to it
C22_Witness ==
    /\ last.op = "reset"
    /\ last.status = "returned"
    /\ X \in everDeclared
    /\ X \notin DOMAIN FLAGS
    /\ GLOBAL_FLAGS = REGISTRY

\* a step that is a call of get or of isSet
ReadStep == pc = "idle" /\ last'.op \in {"get", "isSet"}

\* C23: get(name) and isSet(name) fail with the unknown-flag error for every
\* name that is not declared at the time of the call, a name declared before
\* the last reset() included, and neither call changes the registry.
C23_UnknownFlagFails ==
    [][ReadStep =>
          /\ FLAGS' = FLAGS
          /\ last'.name \notin DOMAIN FLAGS =>
                /\ last'.status = "threw"
                /\ last'.err = "UnknownFlag"]_vars

\* C24: while the process runs, every descriptor that is not a MultiString
\* and has isSet false has a null currentValue: a value that failed coercion
\* or that the validator rejected is not stored.
C24_UnsetHoldsNull ==
    exited = "no" =>
        \A n \in DOMAIN FLAGS :
            (FLAGS[n].kind # "MultiString" /\ ~FLAGS[n].isSet) =>
                FLAGS[n].currentValue = NullV

\* the position of the first `--` of v, and one past its end if it has none
FirstSeparator(v) ==
    IF \E k \in 1..Len(v) : v[k] = DASHES
    THEN CHOOSE k \in 1..Len(v) : v[k] = DASHES /\ \A j \in 1..(k - 1) : v[j] # DASHES
    ELSE Len(v) + 1

\* the flag token at position k of v names the declared flag n: by its name,
\* or, its name undeclared and in `no`, with no value, by the rest of it
Names(v, k, n) ==
    /\ StartsWith(v[k], DASHES)
    /\ n \in DOMAIN FLAGS
    /\ \/ TokenName(v[k]) = n
       \/ /\ TokenName(v[k]) \notin DOMAIN FLAGS
          /\ TokenName(v[k]) = <<"n", "o">> \o n
          /\ ~HasEquals(v[k])
          /\ k = Len(v) \/ v[k + 1] = <<>> \/ StartsWith(v[k + 1], DASHES)

\* the declared flags that the tokens before the first `--` of v name
NamedBeforeSeparator(v) ==
    {n \in DOMAIN FLAGS : \E k \in 1..(FirstSeparator(v) - 1) : Names(v, k, n)}

\* C25: a parse step changes no descriptor but the one its token names, and
\* adds and removes none; when a parse call made with no flag set returns,
\* exactly the descriptors named by a flag token before the first `--` have
\* isSet true, and every other one has isSet false, its default and a null
\* current value.
C25_ParseSetsNamedOnly ==
    [][pc = "scan" =>
          /\ DOMAIN FLAGS' = DOMAIN FLAGS
          /\ \A n \in DOMAIN FLAGS :
                /\ FLAGS'[n].defaultValue = FLAGS[n].defaultValue
                /\ FLAGS'[n] # FLAGS[n] => n \in NamedHere
          /\ last'.status = "returned" =>
                \A n \in DOMAIN FLAGS :
                   /\ FLAGS'[n].isSet <=> n \in NamedBeforeSeparator(argv)
                   /\ ~FLAGS'[n].isSet => FLAGS'[n].currentValue = NullV]_vars

\* a parse call has returned the `--x=a` that came after the `--`, with x
\* declared and left unset
C25_Witness ==
    /\ last.op = "parse"
    /\ last.status = "returned"
    /\ last.val = ListV(<<XEQ \o <<"a">> >>)
    /\ X \in DOMAIN FLAGS
    /\ ~FLAGS[X].isSet
    /\ FLAGS[X].currentValue = NullV
    /\ ~parseCalled

\* the step sets x to value v from the element after its token, which it
\* joins to the token, and the scan goes on after the two
SetsXFromNext(v) ==
    /\ FLAGS'[X].isSet
    /\ DescriptorGet(FLAGS'[X]) = v
    /\ Len(args') = Len(args) - 1
    /\ pc' = "scan" /\ i' = i + 1

\* C26: a Boolean flag token `--x` followed by an element that does not begin
\* with `--` takes that element as its value: a spelling of true sets x to
\* true, a spelling of false sets it to false, and anything else is an
\* invalid-Boolean parse error.
C26_BooleanTakesNextElement ==
    [][(/\ AtBareX
        /\ Unset("Boolean")
        /\ i + 2 <= Len(args)
        /\ ~StartsWith(args[i + 2], DASHES)) =>
          IF args[i + 2] \in TrueLiterals THEN SetsXFromNext(BoolV(TRUE))
          ELSE IF args[i + 2] \in FalseLiterals THEN SetsXFromNext(BoolV(FALSE))
          ELSE FailsX("InvalidBoolean")]_vars

\* the same for a next element that is not the empty string
C26_NonEmptyNextElement ==
    [][(/\ AtBareX
        /\ Unset("Boolean")
        /\ i + 2 <= Len(args)
        /\ args[i + 2] # <<>>
        /\ ~StartsWith(args[i + 2], DASHES)) =>
          IF args[i + 2] \in TrueLiterals THEN SetsXFromNext(BoolV(TRUE))
          ELSE IF args[i + 2] \in FalseLiterals THEN SetsXFromNext(BoolV(FALSE))
          ELSE FailsX("InvalidBoolean")]_vars

\* the token at the scan position is `--nox`, bare or with `=1`
AtNoX == Scanning /\ args[i + 1] = DASHES \o NOX
AtNoXEquals == Scanning /\ args[i + 1] = DASHES \o NOX \o <<"=", "1">>

\* what the string `0` reads back as in a flag of the given kind
ZeroAs(kind) ==
    CASE kind = "String" -> StrV(<<"0">>)
      [] kind = "Integer" -> NumV(0, 0)
      [] OTHER -> BoolV(FALSE)

\* C27: with `nox` and `x` both declared, a token `--nox` leaves x as it is
\* and, unless it fails on nox's own account, sets nox; with `x` declared and
\* `nox` not, `--nox=1` and `--nox` followed by an element it takes as its
\* value are unrecognized flags and change nothing, while `--nox` with a null
\* value sets an unset x to what the string `0` reads as in x's kind: "0" for
\* a String, 0 for an Integer, false for a Boolean.
C27_NoPrefixOnlyWhenUndeclaredAndNull ==
    [][/\ (AtNoX /\ NOX \in DOMAIN FLAGS /\ X \in DOMAIN FLAGS) =>
             /\ FLAGS'[X] = FLAGS[X]
             /\ pc' = "scan" => FLAGS'[NOX].isSet
             /\ pc' = "idle" => last'.err \notin {"UnrecognizedFlag", "none"}
             /\ (FLAGS[NOX].kind = "Boolean" /\ ~FLAGS[NOX].isSet) => pc' = "scan"
       /\ (/\ AtNoXEquals \/ (AtNoX /\ NextIsTaken)
           /\ NOX \notin DOMAIN FLAGS
           /\ X \in DOMAIN FLAGS) =>
             /\ FLAGS' = FLAGS
             /\ pc' = "idle"
             /\ last'.err = "UnrecognizedFlag"
       /\ (/\ AtNoX /\ ~NextIsTaken
           /\ NOX \notin DOMAIN FLAGS
           /\ X \in DOMAIN FLAGS
           /\ ~FLAGS[X].isSet) =>
             SetsX(ZeroAs(FLAGS[X].kind))]_vars

\* a parse call has returned with a String x reading "0", which only `--nox`
\* can give it, and with nox undeclared
C27_Witness ==
    /\ last.op = "parse"
    /\ last.status = "returned"
    /\ NOX \notin DOMAIN FLAGS
    /\ X \in DOMAIN FLAGS
    /\ FLAGS[X].kind = "String"
    /\ FLAGS[X].isSet
    /\ DescriptorGet(FLAGS[X]) = StrV(<<"0">>)

\* the last call was a parse call that raised its error to the caller
ParseThrew == pc = "idle" /\ last.op = "parse" /\ last.status = "threw"

\* C28: the step at which a parse call raises its error keeps every descriptor
\* and leaves each flag that was set with isSet true and its value, and the
\* latch stays clear; the define<Kind> call that follows, of a name not yet
\* declared, registers it, and the parse call that follows scans its
\* arguments.
C28_FailedParseNeitherRollsBackNorCommits ==
    [][/\ (pc = "scan" /\ last'.status = "threw") =>
             /\ DOMAIN FLAGS' = DOMAIN FLAGS
             /\ \A n \in DOMAIN FLAGS :
                   FLAGS[n].isSet =>
                      /\ FLAGS'[n].isSet
                      /\ DescriptorGet(FLAGS'[n]) = DescriptorGet(FLAGS[n])
             /\ ~parseCalled'
             /\ parseReturned' = parseReturned
             /\ pc' = "idle"
       /\ (ParseThrew /\ DefineStep /\ ~Has(FLAGS, last'.name)) =>
             /\ last'.status = "returned"
             /\ last'.name \in DOMAIN FLAGS'
       /\ (ParseThrew /\ ParseCallStep) =>
             /\ pc' = "scan"
             /\ args' = argv'
             /\ i' = 0]_vars

\* a parse call has raised an error after it set x, and x is still set
C28_Witness ==
    /\ ParseThrew
    /\ X \in DOMAIN FLAGS
    /\ FLAGS[X].isSet
    /\ ~parseCalled
    /\ nparse = 1

\* a parse call scans after an earlier one raised an error
C28_ScansAgain ==
    /\ pc = "scan"
    /\ nparse = 2
    /\ ~parseReturned
    /\ X \in DOMAIN FLAGS
    /\ FLAGS[X].isSet

\* C29: once a flag that is not a MultiString is set, no step but reset()
\* removes it, clears its isSet or changes what get reads for it, whether the
\* step is of a parse call or of a define<Kind> call and whether the call
\* returns or fails.
C29_SetValueIsFinal ==
    [][~ResetStep =>
          \A n \in DOMAIN FLAGS :
             (FLAGS[n].kind # "MultiString" /\ FLAGS[n].isSet) =>
                /\ n \in DOMAIN FLAGS'
                /\ FLAGS'[n].kind = FLAGS[n].kind
                /\ FLAGS'[n].isSet
                /\ DescriptorGet(FLAGS'[n]) = DescriptorGet(FLAGS[n])]_vars

\* a second parse call has failed at a later occurrence of x, a String flag
\* that an earlier call had set
C29_Witness ==
    /\ last.op = "parse"
    /\ last.err = "AlreadySet"
    /\ last.name = X
    /\ nparse = 2
    /\ FLAGS[X].kind = "String"
    /\ FLAGS[X].isSet

\* the literals that are no numerals
NonNumeric ==
    { <<"t">>, <<"T", "R", "U", "E">>, <<"F", "a", "l", "s", "e">>, <<"1", "a">>,
      <<"a", ",", "b">>, <<"a", ",", ",", "a">> }

\* C30: a Number flag given null (a bare `--x` that is last or followed by a
\* `--` element) or the empty value (`--x=`) is set and reads 0; given a
\* non-empty literal that is no numeral, the parse call fails with a
\* positional invalid-Number error and the flag stays unset.
C30_NumberNullAndEmptyReadZero ==
    [][(AtXValue /\ Unset("Number")) =>
          IF GivenNull \/ ValueOfX = <<>> THEN SetsX(NumV(0, 0))
          ELSE ValueOfX \in NonNumeric => FailsX("InvalidNumber")]_vars

\* a parse call has returned with a Number x given the empty value, set and
\* reading 0
C30_Witness ==
    /\ last.op = "parse"
    /\ last.status = "returned"
    /\ X \in DOMAIN FLAGS
    /\ FLAGS[X].kind = "Number"
    /\ FLAGS[X].isSet
    /\ DescriptorGet(FLAGS[X]) = NumV(0, 0)
    /\ parseCalled

====
